---- MODULE Spec2Model ----
(***************************************************************************)
(* The relay of Prompt-Master-2.0: functions/api/[[proxy]].ts.             *)
(* One invocation of onRequestPost is modelled from the arrival of the     *)
(* request to its response.  Every await on the generative-model provider  *)
(* is a step of its own: the call is logged when it is issued and the      *)
(* provider's answer (a value or a rejection) is chosen when it returns.   *)
(*                                                                         *)
(* JavaScript strings built by template literals or += are modelled as     *)
(* sequences of their pieces; `undefined` is the string Undefined.         *)
(*                                                                         *)
(* The client, src/app.component.ts, is modelled next to it: the signals   *)
(* of AppComponent, the requests GeminiService has in flight and the       *)
(* project file the user keeps.  The relay's answers to the client are     *)
(* drawn from the responses the relay can give.                            *)
(***************************************************************************)
EXTENDS Integers, Sequences, FiniteSets, TLC

VARIABLES
    env,                   \* context.env: [API_KEY]
    request,               \* the POST request: body kind, envelope type, payload
    pc,                    \* the await the invocation is suspended at
    calls,                 \* provider calls issued so far, in order
    sent,                  \* arguments of the provider call issued last
    reports,               \* `done` flags the video job reported (submission first)
    masterPrompts,         \* handleGenerate: result.prompts
    basePromptForPreview,  \* handleGenerate: the prompt the preview is made from
    previewPromptParts,    \* handleGenerate: parts of the text preview request
    preview,               \* handleGenerate: let preview
    operation,             \* handleGenerate: let operation (video job handle)
    response,              \* the Response onRequestPost resolved with
    unhandled,             \* an exception left onRequestPost uncaught
    thrown                 \* history: the values thrown inside the invocation

vars == <<env, request, pc, calls, sent, reports, masterPrompts,
          basePromptForPreview, previewPromptParts, preview, operation,
          response, unhandled, thrown>>

----------------------------------------------------------------------------
(* Bounds of the model *)

\* status checks the model lets one video job answer
MaxPolls == 3
\* longest prompts array the provider returns
MaxPrompts == 2

----------------------------------------------------------------------------
(* JavaScript values *)

Undefined == "undefined"

\* ToBoolean of a string-or-undefined value
Truthy(v) == v \notin {Undefined, ""}

\* a thrown value: an Error with its message, or something that is no Error
Err(msg) == [isError |-> TRUE, message |-> msg]
NonError == [isError |-> FALSE, message |-> Undefined]
NoThrow == [isError |-> FALSE, message |-> "none"]

TypeError == Err("Cannot read properties of undefined")
SyntaxError == Err("Unexpected token in JSON")

\* what a rejected provider promise carries
Rejections == {Err("provider unavailable"), NonError}

\* String.prototype.toLowerCase on the language tags of the model
toLowerCase(s) ==
    CASE s = "English" -> "english"
      [] s = "Vietnamese" -> "vietnamese"
      [] s = "French" -> "french"
      [] OTHER -> s

\* String.prototype.startsWith('image/') on the MIME types of the model
startsWithImage(mimeType) == mimeType \in {"image/png", "image/jpeg"}

----------------------------------------------------------------------------
(* The request *)

ApiKeys == {Undefined, "", "secret-key"}

RequestTypes ==
    {"generate", "analyze", "generate-image", "generate-video", "delete", Undefined}

OutputTypes ==
    {"Image", "Ảnh", "Hình ảnh", "Video", "Phim ngắn", "image", "Email"}

\* file.data is kept as the result of file.data.split(',')
NoFile == [mimeType |-> Undefined, data |-> <<>>]
PngFile == [mimeType |-> "image/png", data |-> <<"data:image/png;base64", "iVBORw0KGgo">>]
RawFile == [mimeType |-> "text/plain", data |-> <<"plain text without a comma">>]
Files == {NoFile, PngFile, RawFile}

LanguageLists == {<<"English", "Vietnamese">>, <<"French">>}

NoPayload ==
    [outputType |-> Undefined, file |-> NoFile, previewLanguage |-> Undefined,
     masterPromptLanguages |-> <<>>]

Payloads ==
    [outputType : OutputTypes, file : Files, previewLanguage : {"Vietnamese"},
     masterPromptLanguages : LanguageLists]

Requests ==
    {[bodyKind |-> k, type |-> Undefined, hasPayload |-> FALSE, payload |-> NoPayload] :
        k \in {"invalid_json", "null"}}
    \cup [bodyKind : {"object"}, type : RequestTypes, hasPayload : {FALSE},
          payload : {NoPayload}]
    \cup [bodyKind : {"object"}, type : RequestTypes, hasPayload : {TRUE},
          payload : Payloads]

----------------------------------------------------------------------------
(* Responses *)

\* preview.content: its string pieces, then the sextets of an encoded asset
Content(pieces, base64) == [pieces |-> pieces, base64 |-> base64]
NoPreview == [type |-> Undefined, content |-> Content(<<>>, <<>>)]
NoResponse ==
    [status |-> 0, kind |-> "none", error |-> Undefined, masterPrompts |-> <<>>,
     preview |-> NoPreview]

ErrorBody(message) ==
    [kind |-> "error", error |-> message, masterPrompts |-> <<>>, preview |-> NoPreview]
GenerateBody(prompts, pv) ==
    [kind |-> "generate", error |-> Undefined, masterPrompts |-> prompts, preview |-> pv]
AnalysisBody ==
    [kind |-> "analysis", error |-> Undefined, masterPrompts |-> <<>>, preview |-> NoPreview]

jsonResponse(data, status) ==
    [status |-> status, kind |-> data.kind, error |-> data.error,
     masterPrompts |-> data.masterPrompts, preview |-> data.preview]

----------------------------------------------------------------------------
(* What the provider can answer *)

PromptLanguages == {"English", "Vietnamese", "French"}
PromptTexts == {"", "X", "Y"}
PromptEntries == [language : PromptLanguages, prompt : PromptTexts]

\* every array of at most MaxPrompts entries {language, prompt}
PromptArrays == UNION {[1..n -> PromptEntries] : n \in 0..MaxPrompts}

\* a video job handle: `done`, and response.generatedVideos[0].video.uri
Uris == {Undefined, "", "https://provider/video-1?alt=media"}
Operations ==
    {[done |-> FALSE, uri |-> Undefined]} \cup [done : {TRUE}, uri : Uris]
NoOperation == [done |-> FALSE, uri |-> "none"]

\* what the asset URL answers: the video, or the body of an HTTP error
Blobs ==
    {[ok |-> TRUE, type |-> "video/mp4", bytes |-> <<0, 0, 1>>],
     [ok |-> FALSE, type |-> "application/json", bytes |-> <<123, 125>>]}

ImageBytes == {"iVBORw0KGgo", Undefined}
PreviewTexts == {"a preview text", Undefined}

----------------------------------------------------------------------------
(* Pure parts of the relay *)

\* btoa over the bytes of the buffer: sextets 0..63, and 64 for the padding '='
RECURSIVE arrayBufferToBase64(_)
arrayBufferToBase64(bytes) ==
    IF Len(bytes) = 0 THEN <<>>
    ELSE IF Len(bytes) = 1 THEN
        <<bytes[1] \div 4, (bytes[1] % 4) * 16, 64, 64>>
    ELSE IF Len(bytes) = 2 THEN
        <<bytes[1] \div 4, (bytes[1] % 4) * 16 + bytes[2] \div 16,
          (bytes[2] % 16) * 4, 64>>
    ELSE
        <<bytes[1] \div 4, (bytes[1] % 4) * 16 + bytes[2] \div 16,
          (bytes[2] % 16) * 4 + bytes[3] \div 64, bytes[3] % 64>>
        \o arrayBufferToBase64(SubSeq(bytes, 4, Len(bytes)))

IMAGE_OUTPUT_TYPES == {"Image", "Ảnh", "Hình ảnh"}
VIDEO_OUTPUT_TYPES == {"Video", "Phim ngắn"}

\* variant: the tokens matched without regard to case
Pathway_IgnoringCase(outputType) ==
    IF outputType \in IMAGE_OUTPUT_TYPES \cup {"image"} THEN "image"
    ELSE IF outputType \in VIDEO_OUTPUT_TYPES \cup {"video"} THEN "video"
    ELSE "text"

\* the if / else if / else over outputType
Pathway(outputType) ==
    IF outputType \in IMAGE_OUTPUT_TYPES THEN "image"
    ELSE IF outputType \in VIDEO_OUTPUT_TYPES THEN "video"
    ELSE "text"

\* Array.prototype.find(p => p.language.toLowerCase() === 'english'): the index
\* of the first match, 0 when there is none
FindEnglish(prompts) ==
    LET hits == {i \in 1..Len(prompts) : toLowerCase(prompts[i].language) = "english"}
    IN  IF hits = {} THEN 0 ELSE CHOOSE i \in hits : \A j \in hits : i <= j

\* masterPrompts.find(...)?.prompt || masterPrompts[0].prompt
BasePrompt(prompts) ==
    LET i == FindEnglish(prompts)
        found == IF i = 0 THEN Undefined ELSE prompts[i].prompt
    IN  IF Truthy(found) THEN found ELSE prompts[1].prompt

TextPart(pieces) ==
    [kind |-> "text", text |-> pieces, mimeType |-> Undefined, data |-> Undefined]
InlinePart(mimeType, data) ==
    [kind |-> "inlineData", text |-> <<>>, mimeType |-> mimeType, data |-> data]

\* const [header, base64Data] = file.data.split(',')
Base64DataOf(file) == IF Len(file.data) >= 2 THEN file.data[2] ELSE Undefined

\* variant: the file pushed behind the text part
PreviewParts_Pushed(base, file) ==
    IF file /= NoFile /\ Truthy(Base64DataOf(file))
    THEN <<TextPart(<<base>>), InlinePart(file.mimeType, Base64DataOf(file))>>
    ELSE <<TextPart(<<base>>)>>

\* previewPromptParts: the text part, the file unshifted before it
PreviewParts(base, file) ==
    IF file /= NoFile /\ Truthy(Base64DataOf(file))
    THEN <<InlinePart(file.mimeType, Base64DataOf(file)), TextPart(<<base>>)>>
    ELSE <<TextPart(<<base>>)>>

\* finalPromptForTextPreview: the language instruction appended to the last part
FinalTextParts(parts, previewLanguage) ==
    LET last == Len(parts)
    IN  IF last >= 1 /\ parts[last].kind = "text"
        THEN [parts EXCEPT ![last].text =
                 @ \o <<"\n\n--- IMPORTANT: Please provide your entire response in ",
                        previewLanguage, ". ---">>]
        ELSE parts

NoImage == [imageBytes |-> "none", mimeType |-> "none"]

\* videoGenParams.image, set only for an image file
VideoImage(file) ==
    IF file /= NoFile /\ startsWithImage(file.mimeType)
    THEN [imageBytes |-> Base64DataOf(file), mimeType |-> file.mimeType]
    ELSE NoImage

NoArgs == [prompt |-> <<>>, parts |-> <<>>, image |-> NoImage]

\* error instanceof Error ? error.message : 'An unknown error occurred.'
errorMessage(error) ==
    IF error.isError THEN error.message ELSE "An unknown error occurred."

\* variant: the handler's promise returned without await, so that its
\* rejection passes the try block by
Catch_NotAwaited(error) == [response |-> NoResponse, unhandled |-> TRUE]

\* the catch block of onRequestPost
Catch(error) ==
    [response |-> jsonResponse(ErrorBody(errorMessage(error)), 500),
     unhandled |-> FALSE]

\* variant: the credential is not checked
CredentialMissing_Unchecked(apiKey) == FALSE

\* if (!apiKey)
CredentialMissing(apiKey) == ~Truthy(apiKey)

\* variant: the declared type 'generate-image' routed to the generation handler
Dispatch_DeclaredTypes(type) ==
    CASE type \in {"generate", "generate-image"} -> "handleGenerate"
      [] type = "analyze" -> "handleAnalyze"
      [] OTHER -> "default"

\* switch (body.type)
Dispatch(type) ==
    CASE type = "generate" -> "handleGenerate"
      [] type = "analyze" -> "handleAnalyze"
      [] OTHER -> "default"

\* variant: a failed status check is swallowed inside the polling loop
Unwind_RetryPoll(at) == IF at = "await_poll" THEN "video_loop" ELSE "done"

\* an exception raised at `at` unwinds to the catch block: the handler is left
Unwind(at) == "done"

\* let preview = { type: null, content: '' }
Placeholder == [type |-> "null", content |-> Content(<<"">>, <<>>)]

\* preview = { type: 'image', content: `data:image/png;base64,${base64ImageBytes}` }
ImagePreview(base64ImageBytes) ==
    [type |-> "image",
     content |-> Content(<<"data:image/png;base64,", base64ImageBytes>>, <<>>)]

\* preview = { type: 'video', content: `data:${videoBlob.type};base64,${videoBase64}` }
VideoPreview(videoBlob) ==
    [type |-> "video",
     content |-> Content(<<"data:", videoBlob.type, ";base64,">>,
                         arrayBufferToBase64(videoBlob.bytes))]

\* variant: the text pathway leaves `preview` as it was
TextPreview_NotAssigned(text) == [type |-> "null", content |-> Content(<<"">>, <<>>)]

\* preview = { type: 'text', content: textPreviewResponse.text }
TextPreview(text) == [type |-> "text", content |-> Content(<<text>>, <<>>)]

\* variant: the loop waits for the asset URI instead of the done flag
LoopContinues_UntilUri(op) == ~Truthy(op.uri)

\* while (!operation.done)
LoopContinues(op) == ~op.done

\* variant: the asset is fetched without looking at the link
HasDownloadLink_Unchecked(op) == TRUE

\* if (downloadLink)
HasDownloadLink(op) == Truthy(op.uri)

\* masterPromptLanguages.join(', ')
RECURSIVE join(_)
join(list) ==
    IF Len(list) = 0 THEN <<>>
    ELSE IF Len(list) = 1 THEN <<list[1]>>
    ELSE <<list[1], ", ">> \o join(Tail(list))

\* number of calls to `api` issued so far
RECURSIVE CountCalls(_, _)
CountCalls(log, api) ==
    IF log = <<>> THEN 0
    ELSE (IF Head(log) = api THEN 1 ELSE 0) + CountCalls(Tail(log), api)

----------------------------------------------------------------------------
(* The client: AppComponent and GeminiService of src/app.component.ts.     *)
(* A number with two decimals is kept in hundredths (0.7 is 70); null is   *)
(* the string Null; messages are strings, joined by \o, their letters     *)
(* a-breve and d-stroke written a and d.                                   *)

\* requests the client sends to /api/proxy in one session
MaxRequests == 2

Null == "null"

\* readonly languages, of which the model keeps three
languages == <<"English", "Vietnamese", "French">>

\* { 'English': true, 'Vietnamese': true, ..., 'French': false, ... }
DefaultMasterLanguages == [English |-> TRUE, Vietnamese |-> TRUE, French |-> FALSE]

\* uploadedFile: null, or { data, mimeType, name } as onFileSelected stores it
NullFile == [data |-> Null, mimeType |-> Null, name |-> Null]
LogoFile ==
    [data |-> "data:image/png;base64,iVBORw0KGgo", mimeType |-> "image/png",
     name |-> "logo.png"]
\* file: this.uploadedFile() ?? undefined
UndefinedFile == [data |-> Undefined, mimeType |-> Undefined, name |-> Undefined]

\* { type: null, content: '' }
NullPreview == [type |-> Null, content |-> Content(<<>>, <<>>)]

\* the value generationState is constructed with
InitialGenerationState ==
    [masterPrompts |-> <<>>, preview |-> NullPreview, isLoading |-> FALSE,
     error |-> Null, loadingMessage |-> "..."]

\* { result: null, isLoading: false, error: null }
InitialAnalysisState == [result |-> NoResponse, isLoading |-> FALSE, error |-> Null]

\* the signals of AppComponent after construction
InitialComponent ==
    [activeTab |-> "create",
     context |-> "", objective |-> "", role |-> "", expectations |-> "",
     systemInstruction |-> "", promptBody |-> "", mediaInstruction |-> "",
     aiPlatform |-> "Gemini", outputType |-> "Image", uploadedFile |-> NullFile,
     previewLanguage |-> "Vietnamese", masterLanguages |-> DefaultMasterLanguages,
     temperature |-> 70, topP |-> 95, aspectRatio |-> "1:1",
     generationState |-> InitialGenerationState,
     promptToAnalyze |-> "", analysisState |-> InitialAnalysisState]

\* the keys of PromptProject
InputKeys ==
    {"context", "objective", "role", "expectations", "systemInstruction",
     "promptBody", "mediaInstruction", "aiPlatform", "outputType", "uploadedFile",
     "previewLanguage", "masterLanguages", "temperature", "topP", "aspectRatio"}
ProjectKeys == InputKeys \cup {"generationState"}

\* const project: PromptProject = { context: this.context(), ... }
Project(c) ==
    [context |-> c.context, objective |-> c.objective, role |-> c.role,
     expectations |-> c.expectations, systemInstruction |-> c.systemInstruction,
     promptBody |-> c.promptBody, mediaInstruction |-> c.mediaInstruction,
     aiPlatform |-> c.aiPlatform, outputType |-> c.outputType,
     uploadedFile |-> c.uploadedFile, previewLanguage |-> c.previewLanguage,
     masterLanguages |-> c.masterLanguages, temperature |-> c.temperature,
     topP |-> c.topP, aspectRatio |-> c.aspectRatio,
     generationState |-> c.generationState]

\* a file of the user's disk: no file, a JSON object with the keys it holds,
\* or text that is no JSON
NoDocument == [kind |-> "none", present |-> {}, value |-> Project(InitialComponent)]
CorruptFile == [kind |-> "corrupt", present |-> {}, value |-> Project(InitialComponent)]

\* JSON.stringify(project, null, 2): every key of the literal has a value that
\* JSON keeps (strings, finite numbers, booleans, null, arrays, objects)
stringify(project) ==
    [kind |-> "object", present |-> ProjectKeys, value |-> project]

\* snapshots written by hand or by an earlier version: {} and one without
\* masterLanguages, topP, aspectRatio and generationState
EmptySnapshot == [kind |-> "object", present |-> {}, value |-> Project(InitialComponent)]
OlderSnapshot ==
    [kind |-> "object",
     present |-> InputKeys \ {"masterLanguages", "topP", "aspectRatio"},
     value |-> [Project(InitialComponent) EXCEPT
                   !.context = "A product launch", !.objective = "Announce it",
                   !.role = "A technology writer", !.expectations = "800 words",
                   !.systemInstruction = "You write marketing copy",
                   !.promptBody = "Write a blog post", !.mediaInstruction = "None",
                   !.aiPlatform = "Claude", !.outputType = "Video",
                   !.uploadedFile = LogoFile, !.previewLanguage = "English",
                   !.temperature = 0]]
OlderSnapshots == {EmptySnapshot, OlderSnapshot}

\* the last handler or callback that ran
Event(name, id, file) == [name |-> name, id |-> id, file |-> file]

VARIABLES
    component,             \* AppComponent: the value of each signal
    posted,                \* bodies POSTed to /api/proxy, in order
    pending,               \* indices of posted whose promise has not settled
    replies,               \* history: what each posted request was answered
    projectFile,           \* the document exportProject downloaded last
    snapshot,              \* history: the component when projectFile was written
    event                  \* history: the handler or callback that ran last

clientVars == <<component, posted, pending, replies, projectFile, snapshot, event>>

\* the client before its first event
ClientStart ==
    /\ component = InitialComponent
    /\ posted = <<>>
    /\ pending = {}
    /\ replies = <<>>
    /\ projectFile = NoDocument
    /\ snapshot = InitialComponent
    /\ event = Event("constructor", 0, NoDocument)

----------------------------------------------------------------------------
(* The state machine *)

handlerVars ==
    <<masterPrompts, basePromptForPreview, previewPromptParts, preview, operation,
      reports>>

Init ==
    /\ env \in [API_KEY : ApiKeys]
    /\ ClientStart
    /\ request \in Requests
    /\ pc = "start"
    /\ calls = <<>>
    /\ sent = NoArgs
    /\ reports = <<>>
    /\ masterPrompts = <<>>
    /\ basePromptForPreview = Undefined
    /\ previewPromptParts = <<>>
    /\ preview = NoPreview
    /\ operation = NoOperation
    /\ response = NoResponse
    /\ unhandled = FALSE
    /\ thrown = <<>>

\* return <Response>
Respond(r) ==
    /\ response' = r
    /\ pc' = "done"
    /\ UNCHANGED <<unhandled, thrown>>

\* throw error: control leaves the handler for the catch block of onRequestPost
Throw(error) ==
    LET next == Unwind(pc)
    IN  /\ thrown' = Append(thrown, error)
        /\ pc' = next
        /\ IF next = "done"
           THEN /\ response' = Catch(error).response
                /\ unhandled' = Catch(error).unhandled
           ELSE UNCHANGED <<response, unhandled>>

\* issue a provider call and suspend at `at`
Call(api, args, at) ==
    /\ calls' = Append(calls, api)
    /\ sent' = args
    /\ pc' = at
    /\ UNCHANGED <<response, unhandled, thrown>>

\* onRequestPost up to the first await on the provider: the credential check,
\* request.json(), the dispatch, and the handler's code before its first call
onRequestPost ==
    /\ pc = "start"
    /\ UNCHANGED clientVars
    /\ UNCHANGED <<env, request, handlerVars>>
    /\ IF CredentialMissing(env.API_KEY) THEN
           /\ Respond(jsonResponse(
                  ErrorBody("API_KEY is not configured on the server."), 500))
           /\ UNCHANGED <<calls, sent>>
       ELSE IF request.bodyKind = "invalid_json" THEN
           Throw(SyntaxError) /\ UNCHANGED <<calls, sent>>
       ELSE IF request.bodyKind = "null" THEN
           Throw(TypeError) /\ UNCHANGED <<calls, sent>>
       ELSE IF Dispatch(request.type) = "default" THEN
           /\ Respond(jsonResponse(ErrorBody("Invalid request type"), 400))
           /\ UNCHANGED <<calls, sent>>
       ELSE IF ~request.hasPayload THEN
           \* destructuring an undefined payload
           Throw(TypeError) /\ UNCHANGED <<calls, sent>>
       ELSE IF Dispatch(request.type) = "handleGenerate" THEN
           Call("generateContent:master",
                [NoArgs EXCEPT !.prompt =
                    <<"metaPrompt", request.payload.outputType>>
                    \o join(request.payload.masterPromptLanguages)],
                "await_master")
       ELSE
           Call("generateContent:analyze",
                [NoArgs EXCEPT !.prompt = <<"metaPrompt">>], "await_analyze")

AwaitStates ==
    {"await_master", "await_image", "await_video", "await_poll", "await_fetch",
     "await_text", "await_analyze"}

\* the awaited provider promise rejects
ProviderRejects ==
    /\ pc \in AwaitStates
    /\ UNCHANGED clientVars
    /\ \E error \in Rejections : Throw(error)
    /\ UNCHANGED <<env, request, calls, sent, handlerVars>>

\* variant: an empty prompts array passes the check
PromptsMissing_EmptyAccepted(answer, prompts) == answer = "no_prompts"

\* if (!masterPrompts || masterPrompts.length === 0)
PromptsMissing(answer, prompts) == answer = "no_prompts" \/ Len(prompts) = 0

\* handleGenerate from the answer of the master-prompt completion to the
\* preview call chosen by outputType
MasterPromptsReturn ==
    /\ pc = "await_master"
    /\ UNCHANGED clientVars
    /\ UNCHANGED <<env, request, operation, reports>>
    /\ \E answer \in {"no_text", "bad_json", "json_null", "no_prompts", "prompts"},
          prompts \in PromptArrays :
        /\ answer /= "prompts" => prompts = <<>>
        /\ IF answer \in {"no_text", "json_null"} THEN
               \* undefined.trim(), or null.prompts
               /\ Throw(TypeError)
               /\ UNCHANGED <<calls, sent, masterPrompts, basePromptForPreview,
                              previewPromptParts, preview>>
           ELSE IF answer = "bad_json" THEN
               /\ Throw(SyntaxError)
               /\ UNCHANGED <<calls, sent, masterPrompts, basePromptForPreview,
                              previewPromptParts, preview>>
           ELSE IF PromptsMissing(answer, prompts) THEN
               /\ Throw(Err("AI did not return any prompts."))
               /\ UNCHANGED <<calls, sent, masterPrompts, basePromptForPreview,
                              previewPromptParts, preview>>
           ELSE IF answer = "no_prompts" \/ Len(prompts) = 0 THEN
               \* past the check without an entry: masterPrompts.find or
               \* masterPrompts[0].prompt reads a property of undefined
               /\ Throw(Err("Cannot read properties of undefined (reading 'prompt')"))
               /\ UNCHANGED <<calls, sent, masterPrompts, basePromptForPreview,
                              previewPromptParts, preview>>
           ELSE
               LET base == BasePrompt(prompts)
                   file == request.payload.file
                   parts == PreviewParts(base, file)
                   way == Pathway(request.payload.outputType)
                   final == FinalTextParts(parts, request.payload.previewLanguage)
               IN  /\ masterPrompts' = prompts
                   /\ preview' = Placeholder
                   /\ basePromptForPreview' = base
                   /\ previewPromptParts' = IF way = "text" THEN final ELSE parts
                   /\ IF way = "image" THEN
                          Call("generateImages",
                               [NoArgs EXCEPT !.prompt = <<base>>], "await_image")
                      ELSE IF way = "video" THEN
                          Call("generateVideos",
                               [NoArgs EXCEPT !.prompt = <<base>>,
                                              !.image = VideoImage(file)],
                               "await_video")
                      ELSE
                          Call("generateContent:preview",
                               [NoArgs EXCEPT !.parts = final], "await_text")

\* image pathway: the answer of generateImages
ImagesReturn ==
    /\ pc = "await_image"
    /\ UNCHANGED clientVars
    /\ UNCHANGED <<env, request, calls, sent, masterPrompts, basePromptForPreview,
                   previewPromptParts, operation, reports>>
    /\ \/ \* generatedImages is empty: generatedImages[0].image throws
          Throw(TypeError) /\ UNCHANGED preview
       \/ \E bytes \in ImageBytes :
            /\ preview' = ImagePreview(bytes)
            /\ Respond(jsonResponse(GenerateBody(masterPrompts, preview'), 200))

\* video pathway: generateVideos answers with the job handle
VideosSubmitted ==
    /\ pc = "await_video"
    /\ UNCHANGED clientVars
    /\ \E op \in Operations :
        /\ operation' = op
        /\ reports' = <<op.done>>
    /\ pc' = "video_loop"
    /\ UNCHANGED <<env, request, calls, sent, masterPrompts, basePromptForPreview,
                   previewPromptParts, preview, response, unhandled, thrown>>

\* video pathway: the job is not done; sleep 5 s, then ask for its status
PollVideo ==
    /\ pc = "video_loop"
    /\ UNCHANGED clientVars
    /\ LoopContinues(operation)
    /\ CountCalls(calls, "getVideosOperation") < MaxPolls
    /\ Call("getVideosOperation", NoArgs, "await_poll")
    /\ UNCHANGED <<env, request, handlerVars>>

\* video pathway: getVideosOperation answers
OperationReturns ==
    /\ pc = "await_poll"
    /\ UNCHANGED clientVars
    /\ \E op \in Operations :
        /\ operation' = op
        /\ reports' = Append(reports, op.done)
    /\ pc' = "video_loop"
    /\ UNCHANGED <<env, request, calls, sent, masterPrompts, basePromptForPreview,
                   previewPromptParts, preview, response, unhandled, thrown>>

\* video pathway: the loop is left; fetch the asset, or fail without one
VideoCompleted ==
    /\ pc = "video_loop"
    /\ UNCHANGED clientVars
    /\ ~LoopContinues(operation)
    /\ UNCHANGED <<env, request, handlerVars>>
    /\ IF HasDownloadLink(operation)
       THEN Call("fetch", [NoArgs EXCEPT !.prompt = <<operation.uri, "&key=", env.API_KEY>>],
                 "await_fetch")
       ELSE Throw(Err("Could not generate video.")) /\ UNCHANGED <<calls, sent>>

\* video pathway: the asset URL answers; its body becomes the preview
AssetFetched ==
    /\ pc = "await_fetch"
    /\ UNCHANGED clientVars
    /\ UNCHANGED <<env, request, calls, sent, masterPrompts, basePromptForPreview,
                   previewPromptParts, operation, reports>>
    /\ \E videoBlob \in Blobs :
        /\ preview' = VideoPreview(videoBlob)
        /\ Respond(jsonResponse(GenerateBody(masterPrompts, preview'), 200))

\* text pathway: the answer of the preview completion
TextPreviewReturns ==
    /\ pc = "await_text"
    /\ UNCHANGED clientVars
    /\ UNCHANGED <<env, request, calls, sent, masterPrompts, basePromptForPreview,
                   previewPromptParts, operation, reports>>
    /\ \E text \in PreviewTexts :
        /\ preview' = TextPreview(text)
        /\ Respond(jsonResponse(GenerateBody(masterPrompts, preview'), 200))

\* handleAnalyze: the answer of the analysis completion
AnalysisReturns ==
    /\ pc = "await_analyze"
    /\ UNCHANGED clientVars
    /\ UNCHANGED <<env, request, calls, sent, handlerVars>>
    /\ \/ \* result.text is undefined: undefined.trim()
          Throw(TypeError)
       \/ \* result.text is no JSON
          Throw(SyntaxError)
       \/ Respond(jsonResponse(AnalysisBody, 200))

Next ==
    \/ onRequestPost
    \/ ProviderRejects
    \/ MasterPromptsReturn
    \/ ImagesReturn
    \/ VideosSubmitted
    \/ PollVideo
    \/ OperationReturns
    \/ VideoCompleted
    \/ AssetFetched
    \/ TextPreviewReturns
    \/ AnalysisReturns

Spec == Init /\ [][Next]_vars

----------------------------------------------------------------------------
(* Vocabulary of the properties *)

CredentialAbsent == env.API_KEY \in {Undefined, ""}
HasEnvelope == request.bodyKind = "object"
KnownType == HasEnvelope /\ request.type \in {"generate", "analyze"}
GenerateRequest == ~CredentialAbsent /\ HasEnvelope /\ request.type = "generate"

ConfigurationError ==
    [status |-> 500, kind |-> "error",
     error |-> "API_KEY is not configured on the server.",
     masterPrompts |-> <<>>, preview |-> NoPreview]
InvalidRequestError ==
    [status |-> 400, kind |-> "error", error |-> "Invalid request type",
     masterPrompts |-> <<>>, preview |-> NoPreview]

CallsMade == {calls[i] : i \in 1..Len(calls)}

\* the pathway the specification assigns to an output type
SpecifiedPathway(outputType) ==
    CASE outputType \in {"Image", "Ảnh", "Hình ảnh"} -> "image"
      [] outputType \in {"Video", "Phim ngắn"} -> "video"
      [] OTHER -> "text"

\* the provider calls of each preview pathway
PathwayCalls(way) ==
    CASE way = "image" -> {"generateImages"}
      [] way = "video" -> {"generateVideos", "getVideosOperation", "fetch"}
      [] OTHER -> {"generateContent:preview"}
FirstCall(way) ==
    CASE way = "image" -> "generateImages"
      [] way = "video" -> "generateVideos"
      [] OTHER -> "generateContent:preview"
PreviewCalls == PathwayCalls("image") \cup PathwayCalls("video") \cup PathwayCalls("text")

Polls == CountCalls(calls, "getVideosOperation")
\* status checks that answered `not done` (the submission's answer is reports[1])
NotDoneChecks == Cardinality({i \in 2..Len(reports) : ~reports[i]})
\* the polling loop has been left
LoopLeft ==
    \/ "fetch" \in CallsMade
    \/ thrown /= <<>> /\ thrown[Len(thrown)] = Err("Could not generate video.")

----------------------------------------------------------------------------
(* Properties of the relay dispatcher *)

\* C1: with env.API_KEY absent, every request (any type, any body, valid JSON or
\* not) is answered by the one step of the credential check with HTTP 500
\* {error: 'API_KEY is not configured on the server.'}, and no provider call is
\* ever issued.
C1_MissingCredential ==
    CredentialAbsent =>
        /\ calls = <<>>
        /\ thrown = <<>>
        /\ pc \in {"start", "done"}
        /\ pc = "done" => ~unhandled /\ response = ConfigurationError

C1_Witness ==
    /\ env.API_KEY = Undefined
    /\ request.bodyKind = "invalid_json"
    /\ pc = "done"
    /\ response = ConfigurationError

\* C2: with the credential present, an envelope whose type is neither 'generate'
\* nor 'analyze' is answered with HTTP 400 {error: 'Invalid request type'} and
\* no provider call of any kind is issued.
C2_InvalidType ==
    (~CredentialAbsent /\ HasEnvelope /\ request.type \notin {"generate", "analyze"}) =>
        /\ calls = <<>>
        /\ thrown = <<>>
        /\ pc \in {"start", "done"}
        /\ pc = "done" => ~unhandled /\ response = InvalidRequestError

C2_Witness ==
    /\ ~CredentialAbsent
    /\ request.type = "generate-image"
    /\ request.hasPayload
    /\ pc = "done"
    /\ response = InvalidRequestError

\* C3: with the credential present and a known type, no exception leaves
\* onRequestPost; the response is HTTP 200 with the handler's result when nothing
\* was thrown, and HTTP 500 {error: <message string>} when something was thrown
\* inside the handler, the message being the Error's message or the fixed text
\* for a thrown value that is no Error.
C3_CaughtAtBoundary ==
    (~CredentialAbsent /\ KnownType) =>
        /\ ~unhandled
        /\ thrown /= <<>> => pc = "done"
        /\ pc = "done" =>
            IF thrown = <<>>
            THEN /\ response.status = 200
                 /\ response.error = Undefined
                 /\ IF request.type = "generate"
                    THEN response = jsonResponse(GenerateBody(masterPrompts, preview), 200)
                    ELSE response.kind = "analysis"
            ELSE /\ response.status = 500
                 /\ response.kind = "error"
                 /\ response.error /= Undefined
                 /\ response.error =
                        (IF thrown[1].isError THEN thrown[1].message
                         ELSE "An unknown error occurred.")
                 /\ response.masterPrompts = <<>>

C3_Witness ==
    /\ ~CredentialAbsent
    /\ request.type = "generate"
    /\ pc = "done"
    /\ thrown = <<SyntaxError>>
    /\ calls = <<"generateContent:master">>
    /\ response.status = 500
    /\ response.error = SyntaxError.message

----------------------------------------------------------------------------
(* Properties of the generation handler *)

\* C4: the preview pathway is a function of outputType alone: the image tokens
\* select image synthesis, the video tokens video synthesis, every other value
\* (unknown tokens, 'image' in lower case) the text completion.  Only calls of
\* the selected pathway are ever issued, and once the master prompts are
\* accepted the first call of that pathway has been issued exactly once.
C4_OnePathway ==
    GenerateRequest =>
        LET way == SpecifiedPathway(request.payload.outputType)
        IN  /\ (CallsMade \cap PreviewCalls) \subseteq PathwayCalls(way)
            /\ masterPrompts /= <<>> => CountCalls(calls, FirstCall(way)) = 1
            /\ (CallsMade \cap PreviewCalls) /= {} => masterPrompts /= <<>>

C4_Witness ==
    /\ GenerateRequest
    /\ request.payload.outputType = "image"
    /\ calls = <<"generateContent:master", "generateContent:preview">>
    /\ response.status = 200

\* C5: the preview is made from the text of the English-language entry whenever
\* the prompts contain one, wherever it stands, and from the first entry's text
\* only when they contain none.
C5_EnglishPreferred ==
    masterPrompts /= <<>> =>
        LET english == {i \in 1..Len(masterPrompts) :
                           masterPrompts[i].language \in {"English", "english"}}
        IN  IF english /= {}
            THEN \E i \in english : basePromptForPreview = masterPrompts[i].prompt
            ELSE basePromptForPreview = masterPrompts[1].prompt

\* C6 as stated: whenever the polling loop has been left, the job was polled
\* once more than the number of status checks that answered `not done`, and the
\* asset is fetched only after a report of `done`.
C6_PollsNPlusOne ==
    LoopLeft =>
        /\ Polls = NotDoneChecks + 1
        /\ reports /= <<>> /\ reports[Len(reports)]

\* C6 amended: no status check follows a report of `done`; when the loop has been
\* left the last report is `done` and every status check was answered; a job
\* whose submission answered `not done` and whose status checks answered
\* `not done` N times was polled N+1 times, and a job whose submission already
\* answered `done` was not polled at all.  The asset is fetched only then.
C6_PollCount ==
    /\ \A i \in 1..(Len(reports) - 1) : ~reports[i]
    /\ Polls <= Len(reports)
    /\ LoopLeft =>
        /\ reports /= <<>> /\ reports[Len(reports)]
        /\ Polls = Len(reports) - 1
        /\ reports[1] => Polls = 0
        /\ ~reports[1] => Polls = NotDoneChecks + 1

C6_Witness ==
    /\ "fetch" \in CallsMade
    /\ reports = <<FALSE, FALSE, FALSE, TRUE>>
    /\ Polls = 3

\* C7: a video job that reports done without an asset URI ends the request with
\* HTTP 500 {error: 'Could not generate video.'}; the asset is never fetched and
\* no preview of type 'video' is produced.
C7_NoAssetUri ==
    (reports /= <<>> /\ operation.done /\ operation.uri \in {Undefined, ""}) =>
        /\ "fetch" \notin CallsMade
        /\ pc \in {"video_loop", "done"}
        /\ preview.type /= "video"
        /\ pc = "done" =>
            /\ ~unhandled
            /\ response =
                 [status |-> 500, kind |-> "error", error |-> "Could not generate video.",
                  masterPrompts |-> <<>>, preview |-> NoPreview]

C7_Witness ==
    /\ pc = "done"
    /\ reports = <<FALSE, TRUE>>
    /\ operation.uri = Undefined
    /\ response.status = 500
    /\ response.error = "Could not generate video."

\* C8: every HTTP 200 answer to a generate request carries a preview whose type
\* is 'text', 'image' or 'video' and is the pathway of the request's outputType;
\* the placeholder {type: null, content: ''} is never returned.
C8_PreviewPopulated ==
    (response.status = 200 /\ response.kind = "generate") =>
        /\ response.preview.type \in {"text", "image", "video"}
        /\ response.preview.type = SpecifiedPathway(request.payload.outputType)
        /\ response.preview /= Placeholder
        /\ response.preview /= NoPreview

C8_Witness ==
    /\ response.status = 200
    /\ request.payload.outputType = "Email"
    /\ response.preview = TextPreview("a preview text")

\* C9: the masterPrompts of every successful generate response hold exactly one
\* entry for each requested language and no other, each with non-empty text.
C9_OneEntryPerLanguage ==
    (response.status = 200 /\ response.kind = "generate") =>
        LET wanted == request.payload.masterPromptLanguages
            got == response.masterPrompts
        IN  /\ Len(got) = Len(wanted)
            /\ \A k \in 1..Len(wanted) :
                 Cardinality({i \in 1..Len(got) : got[i].language = wanted[k]}) = 1
            /\ \A i \in 1..Len(got) : got[i].prompt /= ""

\* C10: in a generate request a value thrown at any step ends the invocation at
\* once with HTTP 500 {error}, carrying neither masterPrompts nor a preview; a
\* response that carries masterPrompts carries no error and a populated preview;
\* and once something was thrown no further provider call is issued.
C10_State ==
    GenerateRequest =>
        /\ thrown /= <<>> =>
            /\ Len(thrown) = 1
            /\ pc = "done"
            /\ response.status = 500
            /\ response.kind = "error"
            /\ response.masterPrompts = <<>>
            /\ response.preview = NoPreview
        /\ response.masterPrompts /= <<>> =>
            /\ response.status = 200
            /\ response.error = Undefined
            /\ response.preview.type \in {"text", "image", "video"}
            /\ thrown = <<>>
----------------------------------------------------------------------------
(* The video pathway without a bound on the polls.  The loop of the code has  *)
(* no counter, so the histories `calls` and `reports` stop growing past       *)
(* MaxPolls (the last report stays current) and the state space stays finite. *)

\* a request on its way through the video pathway, generateVideos just issued
VideoRequests ==
    {r \in Requests :
        /\ r.bodyKind = "object" /\ r.type = "generate" /\ r.hasPayload
        /\ r.payload.outputType \in VIDEO_OUTPUT_TYPES}

InitVideo ==
    /\ env = [API_KEY |-> "secret-key"]
    /\ ClientStart
    /\ request \in VideoRequests
    /\ masterPrompts \in {p \in PromptArrays : Len(p) = 1}
    /\ basePromptForPreview = BasePrompt(masterPrompts)
    /\ previewPromptParts = PreviewParts(basePromptForPreview, request.payload.file)
    /\ preview = Placeholder
    /\ pc = "await_video"
    /\ calls = <<"generateContent:master", "generateVideos">>
    /\ sent = [NoArgs EXCEPT !.prompt = <<basePromptForPreview>>,
                             !.image = VideoImage(request.payload.file)]
    /\ reports = <<>>
    /\ operation = NoOperation
    /\ response = NoResponse
    /\ unhandled = FALSE
    /\ thrown = <<>>

\* variant: the loop gives up after MaxPolls status checks
PollVideo_AttemptLimit ==
    /\ pc = "video_loop"
    /\ UNCHANGED clientVars
    /\ LoopContinues(operation)
    /\ UNCHANGED <<env, request, handlerVars>>
    /\ IF CountCalls(calls, "getVideosOperation") < MaxPolls
       THEN Call("getVideosOperation", NoArgs, "await_poll")
       ELSE Throw(Err("Video generation timed out.")) /\ UNCHANGED <<calls, sent>>

\* the job is not done; sleep 5 s, then ask for its status, however often
PollVideoAgain ==
    /\ pc = "video_loop"
    /\ UNCHANGED clientVars
    /\ LoopContinues(operation)
    /\ calls' = IF CountCalls(calls, "getVideosOperation") < MaxPolls
                THEN Append(calls, "getVideosOperation") ELSE calls
    /\ sent' = NoArgs
    /\ pc' = "await_poll"
    /\ UNCHANGED <<env, request, handlerVars, response, unhandled, thrown>>

\* getVideosOperation answers
OperationReturnsAgain ==
    /\ pc = "await_poll"
    /\ UNCHANGED clientVars
    /\ \E op \in Operations :
        /\ operation' = op
        /\ reports' = IF Len(reports) <= MaxPolls
                      THEN Append(reports, op.done)
                      ELSE [reports EXCEPT ![Len(reports)] = op.done]
    /\ pc' = "video_loop"
    /\ UNCHANGED <<env, request, calls, sent, masterPrompts, basePromptForPreview,
                   previewPromptParts, preview, response, unhandled, thrown>>

VideoNext ==
    \/ ProviderRejects
    \/ VideosSubmitted
    \/ PollVideoAgain
    \/ OperationReturnsAgain
    \/ VideoCompleted
    \/ AssetFetched

\* the event loop runs every timer and every awaited call settles: the
\* invocation does not stop while it has a step to take
VideoSpec == InitVideo /\ [][VideoNext]_vars /\ WF_vars(VideoNext)

\* C11: a video request is answered only after the job reported done or a call
\* failed; from a report of `not done` the only step is another status check,
\* however many were made before (no attempt limit, timeout or cancellation),
\* so a job that never reports done is polled forever and never answered; and
\* once the job reports done the request is eventually answered.
C11_PollsUntilDone ==
    /\ [](pc = "done" => (thrown /= <<>> \/ (reports /= <<>> /\ operation.done)))
    /\ [][(pc = "video_loop" /\ ~operation.done) =>
            (pc' = "await_poll" /\ response' = NoResponse /\ thrown' = <<>>)]_vars
    /\ [][pc = "await_poll" => (pc' = "video_loop" \/ thrown' /= <<>>)]_vars
    /\ (pc = "video_loop" /\ ~operation.done) ~> (pc = "await_poll")
    /\ (pc = "video_loop" /\ operation.done) ~> (pc = "done")

\* more than MaxPolls status checks were answered `not done` and one more is out
C11_Witness ==
    /\ pc = "await_poll"
    /\ Len(reports) = MaxPolls + 1
    /\ ~reports[Len(reports)]
    /\ CountCalls(calls, "getVideosOperation") = MaxPolls
    /\ response = NoResponse

----------------------------------------------------------------------------
(* Further properties of the generation handler *)

\* C15: the master-prompt completion is the first provider call of every
\* generate request and is issued once; a preview call is issued only after a
\* non-empty prompts array was accepted; a result that is missing, empty or
\* unparsable ends the request with HTTP 500 after that one call, an empty
\* result being reported by the generation error and not by a failed property
\* access.
C15_MasterPromptsFirst ==
    GenerateRequest =>
        /\ calls /= <<>> => calls[1] = "generateContent:master"
        /\ CountCalls(calls, "generateContent:master") <= 1
        /\ Len(calls) >= 2 => masterPrompts /= <<>>
        /\ (pc = "done" /\ masterPrompts = <<>> /\ calls /= <<>>) =>
            /\ calls = <<"generateContent:master">>
            /\ thrown /= <<>>
            /\ response.status = 500
            /\ response.kind = "error"
            /\ response.error /= "Cannot read properties of undefined (reading 'prompt')"

C15_Witness ==
    /\ GenerateRequest
    /\ pc = "done"
    /\ calls = <<"generateContent:master">>
    /\ thrown = <<Err("AI did not return any prompts.")>>
    /\ response.status = 500
    /\ response.error = "AI did not return any prompts."

\* the state of the video job of the request
VideoState ==
    IF "generateVideos" \notin CallsMade THEN "none"
    ELSE IF pc = "done" THEN
        (IF response.status = 200 THEN "materialized" ELSE "failed")
    ELSE IF pc = "await_video" THEN "submitted"
    ELSE IF operation.done THEN "completed"
    ELSE IF Polls = 0 THEN "submitted"
    ELSE "polling"

\* the transitions as C16 lists them
ListedTransitions ==
    {<<"none", "submitted">>, <<"submitted", "polling">>, <<"polling", "polling">>,
     <<"polling", "completed">>, <<"submitted", "completed">>,
     <<"completed", "materialized">>, <<"submitted", "failed">>}

VideoStutter ==
    {<<v, v>> : v \in {"none", "submitted", "polling", "completed"}}
    \cup {<<"none", "failed">>}

VideoStepIn(transitions) == <<VideoState, VideoState'>> \in transitions

VideoEnded == VideoState \in {"materialized", "failed"}

\* C16 as stated: the video job moves only along submitted -> polling* ->
\* completed -> materialized, or submitted -> failed.
C16_ListedOnly ==
    [][VideoStepIn(ListedTransitions \cup VideoStutter)]_vars

\* C16 amended: the video job moves only along submitted -> polling* ->
\* completed -> materialized, or from submitted, polling or completed to failed;
\* there is no other transition (none that cancels the job); materialized and
\* failed are terminal, and the response, once produced, is never replaced.
C16_VideoTransitions ==
    /\ [][VideoStepIn(ListedTransitions \cup VideoStutter
                       \cup {<<"polling", "failed">>, <<"completed", "failed">>})]_vars
    /\ [][~VideoEnded]_vars
    /\ [][response /= NoResponse => response' = response]_vars
    /\ [](VideoEnded <=>
            ("generateVideos" \in CallsMade /\ response /= NoResponse))

C16_Witness ==
    /\ VideoState = "failed"
    /\ reports = <<FALSE, FALSE>>
    /\ Polls = 2
    /\ thrown = <<Err("provider unavailable")>>

\* the parts the text pathway is to send for a base prompt
ExpectedTextPart ==
    TextPart(<<basePromptForPreview,
               "\n\n--- IMPORTANT: Please provide your entire response in ",
               request.payload.previewLanguage, ". ---">>)
TextPathwayTaken == GenerateRequest /\ "generateContent:preview" \in CallsMade

\* C17 as stated: whenever the request carries a file, the one text-preview
\* completion receives it as a binary part before the prompt text part, which
\* ends with the language instruction; without a file it receives the one text
\* part.
C17_FileAlwaysPrepended ==
    TextPathwayTaken =>
        /\ CountCalls(calls, "generateContent:preview") = 1
        /\ IF request.payload.file /= NoFile
           THEN /\ Len(sent.parts) = 2
                /\ sent.parts[1].kind = "inlineData"
                /\ sent.parts[2] = ExpectedTextPart
           ELSE sent.parts = <<ExpectedTextPart>>

\* C17 amended: the file is sent, as a binary part before the prompt text part,
\* whenever its data holds a comma followed by a non-empty payload (a data URL);
\* with no file, or a file whose data holds no such payload, the completion
\* receives the one text part.  The text part is last and ends with the
\* language instruction, and exactly one text-preview completion is requested.
C17_TextPreviewParts ==
    TextPathwayTaken =>
        LET file == request.payload.file
            payload == IF Len(file.data) >= 2 THEN file.data[2] ELSE ""
        IN  /\ CountCalls(calls, "generateContent:preview") = 1
            /\ calls[Len(calls)] = "generateContent:preview"
            /\ IF file /= NoFile /\ payload /= ""
               THEN sent.parts =
                      <<[kind |-> "inlineData", text |-> <<>>,
                         mimeType |-> file.mimeType, data |-> payload],
                        ExpectedTextPart>>
               ELSE sent.parts = <<ExpectedTextPart>>

C17_Witness ==
    /\ TextPathwayTaken
    /\ request.payload.file = PngFile
    /\ Len(sent.parts) = 2
    /\ sent.parts[1].data = "iVBORw0KGgo"
    /\ response.status = 200

----------------------------------------------------------------------------
(* The client as a state machine *)

\* the relay while the client is observed: no invocation is looked into
RelayIdle ==
    /\ env = [API_KEY |-> "secret-key"]
    /\ request = [bodyKind |-> "object", type |-> "generate", hasPayload |-> FALSE,
                  payload |-> NoPayload]
    /\ pc = "start"
    /\ calls = <<>>
    /\ sent = NoArgs
    /\ reports = <<>>
    /\ masterPrompts = <<>>
    /\ basePromptForPreview = Undefined
    /\ previewPromptParts = <<>>
    /\ preview = NoPreview
    /\ operation = NoOperation
    /\ response = NoResponse
    /\ unhandled = FALSE
    /\ thrown = <<>>

ClientInit == ClientStart /\ RelayIdle

\* what fetch and the relay can answer a POST with: the fetch itself rejects,
\* or a response arrives with its status line and its JSON body
TextPreviewOf(text) == [type |-> "text", content |-> Content(<<text>>, <<>>)]
FetchRejected == [fetched |-> FALSE, statusText |-> Undefined, response |-> NoResponse]
Fetched(answer, statusText) ==
    [fetched |-> TRUE, statusText |-> statusText, response |-> answer]
ErrorOutcomes ==
    {FetchRejected,
     Fetched(jsonResponse(ErrorBody("API_KEY is not configured on the server."), 500),
             "Internal Server Error"),
     Fetched(jsonResponse(ErrorBody(""), 500), "Internal Server Error")}
GenerateOutcomes ==
    {Fetched(jsonResponse(
                 GenerateBody(<<[language |-> "English", prompt |-> text]>>,
                              TextPreviewOf("a preview text")), 200), "OK") :
        text \in {"X", "Y"}}
AnalyzeOutcomes == {Fetched(jsonResponse(AnalysisBody, 200), "OK")}
Outcomes(type) ==
    ErrorOutcomes \cup (IF type = "generate" THEN GenerateOutcomes ELSE AnalyzeOutcomes)

\* the generate or analyze promise: resolved with the body, or rejected with
\* an Error
Resolved(result) == [ok |-> TRUE, result |-> result, message |-> Undefined]
Rejected(message) == [ok |-> FALSE, result |-> NoResponse, message |-> message]

\* variant: the caught error is thrown again as it is
Rethrow_Same(error) == Rejected(error.message)

\* postToProxy, the catch block: throw new Error(`Không thể thực hiện yêu cầu.
\* Lỗi: ${errorMessage}`)
Rethrow(error) ==
    Rejected("Không thể thực hiện yêu cầu. Lỗi: "
             \o (IF error.isError THEN error.message
                 ELSE "Lỗi không xác dịnh khi giao tiếp với server."))

\* response.ok
ok(answer) == answer.status >= 200 /\ answer.status <= 299

\* GeminiService.postToProxy once fetch has settled
postToProxy(outcome) ==
    IF ~outcome.fetched THEN Rethrow(Err("Failed to fetch"))
    ELSE IF ~ok(outcome.response) THEN
        Rethrow(Err(IF Truthy(outcome.response.error) THEN outcome.response.error
                    ELSE "Server error: " \o outcome.statusText))
    ELSE Resolved(outcome.response)

\* Object.keys(this.masterLanguages()).filter(lang => this.masterLanguages()[lang])
selectedLanguages(langs) == SelectSeq(languages, LAMBDA lang : langs[lang])

\* variant: the selection is not checked
NoneSelected_Unchecked(selected) == FALSE

\* if (selectedLanguages.length === 0)
NoneSelected(selected) == Len(selected) = 0

\* isMediaOutput
isMediaOutput(outputType) == outputType \in {"Image", "Video"}

\* the payload generatePrompt hands to generateProfessionalPrompt
GeneratePayload(c, selected) ==
    [context |-> c.context, objective |-> c.objective, role |-> c.role,
     expectations |-> c.expectations, systemInstruction |-> c.systemInstruction,
     promptBody |-> c.promptBody, mediaInstruction |-> c.mediaInstruction,
     aiPlatform |-> c.aiPlatform, outputType |-> c.outputType,
     file |-> IF c.uploadedFile = NullFile THEN UndefinedFile ELSE c.uploadedFile,
     previewLanguage |-> c.previewLanguage, masterPromptLanguages |-> selected,
     temperature |-> c.temperature, topP |-> c.topP, aspectRatio |-> c.aspectRatio]

\* fetch('/api/proxy', { method: 'POST', body: JSON.stringify(body) })
Post(type, payload) ==
    /\ posted' = Append(posted, [type |-> type, payload |-> payload])
    /\ pending' = pending \cup {Len(posted) + 1}
    /\ replies' = Append(replies, FetchRejected)

\* a pending request of the given type
Awaiting(type) == {id \in pending : posted[id].type = type}

\* generatePrompt up to its await
generatePrompt ==
    LET selected == selectedLanguages(component.masterLanguages)
        state == component.generationState
    IN  /\ IF NoneSelected(selected) THEN
               /\ component' = [component EXCEPT !.generationState.error =
                     "Vui lòng chọn ít nhất một ngôn ngữ cho Prompt Master."]
               /\ UNCHANGED <<posted, pending, replies>>
           ELSE
               /\ Len(posted) < MaxRequests
               /\ component' = [component EXCEPT !.generationState =
                     [state EXCEPT
                        !.isLoading = TRUE, !.error = Null,
                        !.loadingMessage =
                            IF isMediaOutput(component.outputType)
                            THEN "Dang tạo media... Quá trình này có thể mất vài phút."
                            ELSE "AI dang sáng tạo prompt và kết quả..."]]
               /\ Post("generate", GeneratePayload(component, selected))
        /\ event' = Event("generatePrompt", 0, NoDocument)
        /\ UNCHANGED <<projectFile, snapshot, vars>>

\* generatePrompt from its await on: the response is shown, or the error caught
generatePromptResumes ==
    /\ \E id \in Awaiting("generate"), outcome \in Outcomes("generate") :
        LET settled == postToProxy(outcome)
        IN  /\ component' = [component EXCEPT !.generationState =
                  IF settled.ok
                  THEN [masterPrompts |-> settled.result.masterPrompts,
                        preview |-> settled.result.preview, isLoading |-> FALSE,
                        error |-> Null, loadingMessage |-> ""]
                  ELSE [@ EXCEPT !.isLoading = FALSE, !.error = settled.message]]
            /\ pending' = pending \ {id}
            /\ replies' = [replies EXCEPT ![id] = outcome]
            /\ event' = Event("generatePromptResumes", id, NoDocument)
    /\ UNCHANGED <<posted, projectFile, snapshot, vars>>

\* the form field bound to promptToAnalyze is edited
PromptsToAnalyze == {"Write a haiku about autumn."}
inputPromptToAnalyze ==
    /\ \E text \in PromptsToAnalyze :
        /\ text /= component.promptToAnalyze
        /\ component' = [component EXCEPT !.promptToAnalyze = text]
    /\ event' = Event("inputPromptToAnalyze", 0, NoDocument)
    /\ UNCHANGED <<posted, pending, replies, projectFile, snapshot, vars>>

\* String.prototype.trim() leaves nothing
Blank(text) == text \in {"", "   "}

\* analyzePrompt up to its await
analyzePrompt ==
    /\ IF Blank(component.promptToAnalyze) THEN
           /\ component' = [component EXCEPT !.analysisState.error =
                 "Vui lòng nhập một prompt dể phân tích."]
           /\ UNCHANGED <<posted, pending, replies>>
       ELSE
           /\ Len(posted) < MaxRequests
           /\ component' = [component EXCEPT !.analysisState =
                 [result |-> NoResponse, isLoading |-> TRUE, error |-> Null]]
           /\ Post("analyze", [promptToAnalyze |-> component.promptToAnalyze])
    /\ event' = Event("analyzePrompt", 0, NoDocument)
    /\ UNCHANGED <<projectFile, snapshot, vars>>

\* analyzePrompt from its await on
analyzePromptResumes ==
    /\ \E id \in Awaiting("analyze"), outcome \in Outcomes("analyze") :
        LET settled == postToProxy(outcome)
        IN  /\ component' = [component EXCEPT !.analysisState =
                  IF settled.ok
                  THEN [result |-> settled.result, isLoading |-> FALSE, error |-> Null]
                  ELSE [@ EXCEPT !.isLoading = FALSE, !.error = settled.message]]
            /\ pending' = pending \ {id}
            /\ replies' = [replies EXCEPT ![id] = outcome]
            /\ event' = Event("analyzePromptResumes", id, NoDocument)
    /\ UNCHANGED <<posted, projectFile, snapshot, vars>>

\* exportProject: the document is written to the user's disk
exportProject ==
    /\ projectFile' = stringify(Project(component))
    /\ snapshot' = component
    /\ event' = Event("exportProject", 0, NoDocument)
    /\ UNCHANGED <<component, posted, pending, replies, vars>>

\* JSON.parse(reader.result) returns
Parses(document) == document.kind = "object"

\* variant: project.key || default
Absent_OrFalsy(project, key) ==
    \/ key \notin project.present
    \/ key \in {"temperature", "topP"} /\ project.value[key] = 0
    \/ key \in {"context", "objective", "role", "expectations", "systemInstruction",
                "promptBody", "mediaInstruction", "aiPlatform", "outputType",
                "previewLanguage", "aspectRatio"} /\ project.value[key] = ""
    \/ key = "uploadedFile" /\ project.value[key] = NullFile

\* project.key is undefined or null, the two values ?? replaces
Absent(project, key) ==
    \/ key \notin project.present
    \/ key = "uploadedFile" /\ project.value[key] = NullFile

\* project.key ?? default
OrDefault(project, key, default) ==
    IF Absent(project, key) THEN default ELSE project.value[key]

\* the files the user can pick: the one exported last, an older snapshot, or a
\* file that is no JSON
Documents ==
    OlderSnapshots \cup {CorruptFile}
    \cup (IF projectFile = NoDocument THEN {} ELSE {projectFile})

\* onProjectImport with reader.onload: the picked file is read and applied.
\* The handler itself only starts the read; the signals change in onload.
onProjectImport ==
    /\ \E file \in Documents :
        /\ IF Parses(file) THEN
               component' =
                 [component EXCEPT
                    !.context = OrDefault(file, "context", ""),
                    !.objective = OrDefault(file, "objective", ""),
                    !.role = OrDefault(file, "role", ""),
                    !.expectations = OrDefault(file, "expectations", ""),
                    !.systemInstruction = OrDefault(file, "systemInstruction", ""),
                    !.promptBody = OrDefault(file, "promptBody", ""),
                    !.mediaInstruction = OrDefault(file, "mediaInstruction", ""),
                    !.aiPlatform = OrDefault(file, "aiPlatform", "Gemini"),
                    !.outputType = OrDefault(file, "outputType", "Image"),
                    !.uploadedFile = OrDefault(file, "uploadedFile", NullFile),
                    !.previewLanguage = OrDefault(file, "previewLanguage", "Vietnamese"),
                    !.masterLanguages =
                        OrDefault(file, "masterLanguages", DefaultMasterLanguages),
                    !.temperature = OrDefault(file, "temperature", 70),
                    !.topP = OrDefault(file, "topP", 95),
                    !.aspectRatio = OrDefault(file, "aspectRatio", "1:1"),
                    !.generationState =
                        OrDefault(file, "generationState",
                                  [masterPrompts |-> <<>>, preview |-> NullPreview,
                                   isLoading |-> FALSE, error |-> Null,
                                   loadingMessage |-> "..."]),
                    !.activeTab = "create"]
           ELSE
               component' =
                 [component EXCEPT
                    !.generationState.error = "Tệp dự án không hợp lệ hoặc bị hỏng.",
                    !.activeTab = "create"]
        /\ event' = Event("onProjectImport", 0, file)
    /\ UNCHANGED <<posted, pending, replies, projectFile, snapshot, vars>>

\* toggleMasterLanguage(lang), for the two languages that start selected
ToggledLanguages == {"English", "Vietnamese"}
toggleMasterLanguage ==
    /\ \E lang \in ToggledLanguages :
        component' = [component EXCEPT !.masterLanguages[lang] = ~@]
    /\ event' = Event("toggleMasterLanguage", 0, NoDocument)
    /\ UNCHANGED <<posted, pending, replies, projectFile, snapshot, vars>>

\* the user fills in the forms and sends requests
ClientNext ==
    \/ generatePrompt
    \/ generatePromptResumes
    \/ inputPromptToAnalyze
    \/ analyzePrompt
    \/ analyzePromptResumes
    \/ toggleMasterLanguage

\* the user generates, saves projects and loads them
ProjectNext ==
    \/ generatePrompt
    \/ generatePromptResumes
    \/ exportProject
    \/ onProjectImport

allVars == <<vars, clientVars>>

ClientSpec == ClientInit /\ [][ClientNext]_allVars

ProjectSpec == ClientInit /\ [][ProjectNext]_allVars

----------------------------------------------------------------------------
(* Vocabulary of the client's properties *)

\* the input signals, in the order C13 lists them
InputsOf(c) ==
    <<c.context, c.objective, c.role, c.expectations, c.systemInstruction,
      c.promptBody, c.mediaInstruction, c.aiPlatform, c.outputType, c.uploadedFile,
      c.previewLanguage, c.masterLanguages, c.temperature, c.topP, c.aspectRatio,
      c.promptToAnalyze>>

\* the generate requests that have not been answered
GenerateInFlight == {id \in pending : posted[id].type = "generate"}

\* the languages toggled on
LanguagesOn(c) == {lang \in DOMAIN c.masterLanguages : c.masterLanguages[lang]}

Range(seq) == {seq[i] : i \in 1..Len(seq)}

\* the defaults the project format documents
DocumentedDefaults ==
    [context |-> "", objective |-> "", role |-> "", expectations |-> "",
     systemInstruction |-> "", promptBody |-> "", mediaInstruction |-> "",
     aiPlatform |-> "Gemini", outputType |-> "Image", uploadedFile |-> NullFile,
     previewLanguage |-> "Vietnamese",
     masterLanguages |-> [English |-> TRUE, Vietnamese |-> TRUE, French |-> FALSE],
     temperature |-> 70, topP |-> 95, aspectRatio |-> "1:1",
     generationState |->
        [masterPrompts |-> <<>>,
         preview |-> [type |-> Null, content |-> Content(<<>>, <<>>)],
         isLoading |-> FALSE, error |-> Null, loadingMessage |-> "..."]]

\* the last event was the import of a document that parsed
Imported == event.name = "onProjectImport" /\ event.file.kind = "object"

----------------------------------------------------------------------------
(* Properties of the client *)

\* C12: importing the document exportProject wrote restores every input field
\* and the generation state to the values they had at the export, and
\* importing a snapshot that lacks a field sets that field to its documented
\* default and every field it holds to the value it holds.
C12_RoundTrip ==
    Imported =>
        \A key \in ProjectKeys :
            component[key] =
                IF event.file = projectFile THEN snapshot[key]
                ELSE IF key \in event.file.present THEN event.file.value[key]
                ELSE DocumentedDefaults[key]

\* the exported project, saved after an older snapshot with temperature 0 was
\* loaded and a generation shown, has been imported again
C12_Witness ==
    /\ Imported
    /\ event.file = projectFile
    /\ snapshot.temperature = 0
    /\ snapshot.uploadedFile = LogoFile
    /\ snapshot.generationState.masterPrompts /= <<>>
    /\ component.temperature = 0
    /\ component.generationState = snapshot.generationState

\* the step handles the failure of a request the relay answered with an error
RelayFailed(e, answers) ==
    /\ e.name \in {"generatePromptResumes", "analyzePromptResumes"}
    /\ answers[e.id].fetched
    /\ answers[e.id].response.kind = "error"

\* the step handles a request whose fetch was rejected
FetchFailed(e, answers) ==
    /\ e.name \in {"generatePromptResumes", "analyzePromptResumes"}
    /\ ~answers[e.id].fetched

\* the error string of the tab the request belongs to
ShownError(e, c) ==
    IF e.name = "generatePromptResumes" THEN c.generationState.error
    ELSE c.analysisState.error

\* the loading flag of the tab the request belongs to
ShownLoading(e, c) ==
    IF e.name = "generatePromptResumes" THEN c.generationState.isLoading
    ELSE c.analysisState.isLoading

\* C13 as stated: when a generate or analyze request fails, the error shown is
\* the relay's message string verbatim and every input signal is unchanged.
C13_MessageVerbatim ==
    [][RelayFailed(event', replies') =>
        /\ ShownError(event', component') = replies'[event'.id].response.error
        /\ InputsOf(component') = InputsOf(component)]_allVars

\* what the client shows for an error response of the relay
ExpectedError(answer) ==
    "Không thể thực hiện yêu cầu. Lỗi: "
    \o (IF answer.response.error \in {Undefined, ""}
        THEN "Server error: " \o answer.statusText
        ELSE answer.response.error)

\* C13 amended: when a generate or analyze request fails, the error shown is
\* the fixed prefix followed by the relay's message string verbatim (by
\* "Server error: " and the status text if the relay's body has no message, by
\* the message of the fetch error if no response arrived), the loading flag of
\* the tab is cleared, and every input signal is unchanged.
C13_MessagePrefixed ==
    /\ [][RelayFailed(event', replies') =>
            /\ ShownError(event', component') = ExpectedError(replies'[event'.id])
            /\ ~ShownLoading(event', component')
            /\ InputsOf(component') = InputsOf(component)]_allVars
    /\ [][FetchFailed(event', replies') =>
            /\ ShownError(event', component') =
                 "Không thể thực hiện yêu cầu. Lỗi: Failed to fetch"
            /\ ~ShownLoading(event', component')
            /\ InputsOf(component') = InputsOf(component)]_allVars

\* a generate request sent with Vietnamese toggled off failed with the relay's
\* configuration error
C13_Witness ==
    /\ RelayFailed(event, replies)
    /\ event.name = "generatePromptResumes"
    /\ replies[event.id].response.error = "API_KEY is not configured on the server."
    /\ component.generationState.error =
         "Không thể thực hiện yêu cầu. Lỗi: API_KEY is not configured on the server."
    /\ ~component.masterLanguages["Vietnamese"]
    /\ component.promptToAnalyze /= ""

\* the step is a call of generatePrompt
GenerateCalled(e) == e.name = "generatePrompt"

\* C14: no generate request is ever sent with an empty masterPromptLanguages;
\* generatePrompt with no language toggled on sets the error, sends nothing and
\* leaves isLoading, masterPrompts and preview as they were; with a language
\* on, it sends one request that carries exactly the languages toggled on.
C14_LanguagesGuard ==
    /\ [](\A i \in 1..Len(posted) :
            posted[i].type = "generate" =>
                posted[i].payload.masterPromptLanguages /= <<>>)
    /\ [][(GenerateCalled(event') /\ LanguagesOn(component) = {}) =>
            /\ posted' = posted
            /\ pending' = pending
            /\ component'.generationState.error =
                 "Vui lòng chọn ít nhất một ngôn ngữ cho Prompt Master."
            /\ component'.generationState.isLoading =
                 component.generationState.isLoading
            /\ component'.generationState.masterPrompts =
                 component.generationState.masterPrompts
            /\ component'.generationState.preview =
                 component.generationState.preview]_allVars
    /\ [][(GenerateCalled(event') /\ LanguagesOn(component) /= {}) =>
            /\ Len(posted') = Len(posted) + 1
            /\ posted'[Len(posted')].type = "generate"
            /\ Range(posted'[Len(posted')].payload.masterPromptLanguages) =
                 LanguagesOn(component)
            /\ Len(posted'[Len(posted')].payload.masterPromptLanguages) =
                 Cardinality(LanguagesOn(component))]_allVars

\* generatePrompt was called with every language off while an earlier request,
\* sent with English alone, is in flight
C14_Witness ==
    /\ GenerateCalled(event)
    /\ LanguagesOn(component) = {}
    /\ component.generationState.error =
         "Vui lòng chọn ít nhất một ngôn ngữ cho Prompt Master."
    /\ component.generationState.isLoading
    /\ Len(posted) = 1
    /\ posted[1].payload.masterPromptLanguages = <<"English">>
    /\ pending = {1}

\* C18: isLoading is true only while a generate request is in flight.
C18_LoadingOnlyInFlight ==
    component.generationState.isLoading => GenerateInFlight /= {}

\* the generate request started last
LatestGenerate ==
    CHOOSE id \in 1..Len(posted) :
        /\ posted[id].type = "generate"
        /\ \A other \in 1..Len(posted) :
             posted[other].type = "generate" => other <= id

\* C19: after the answer to a generate request was handled, isLoading is still
\* true if another generate request is in flight, and once none is in flight
\* the masterPrompts and preview shown are those the request started last was
\* answered with.
C19_LatestRequestWins ==
    event.name = "generatePromptResumes" =>
        /\ GenerateInFlight /= {} => component.generationState.isLoading
        /\ (GenerateInFlight = {} /\ replies[LatestGenerate].response.status = 200) =>
            /\ component.generationState.masterPrompts =
                 replies[LatestGenerate].response.masterPrompts
            /\ component.generationState.preview =
                 replies[LatestGenerate].response.preview

====
